---- MODULE Spec2Model ----
(***************************************************************************)
(* Model of custom_components/reolink/config_flow.py: the onboarding       *)
(* config flow (ReolinkFlowHandler), the options flow                      *)
(* (ReolinkOptionsFlowHandler) and its webhook reachability test.          *)
(*                                                                         *)
(* A handler is cut at its await points on external collaborators (the     *)
(* ReolinkHost calls, asyncio.sleep, the outbound POST) and at the forms   *)
(* that wait for the user; everything between two such points is one step. *)
(***************************************************************************)
EXTENDS Integers, Sequences, FiniteSets, TLC

VARIABLES
    \* ---- entry store (hass.config_entries) ----
    entries,          \* sequence of stored records [unique_id, data]
    reloads,          \* indices of the records for which a reload was scheduled
    \* ---- ReolinkFlowHandler, one value per flow instance ----
    source,           \* self.source
    flow_entry,       \* index of the reauth/reconfigure entry, 0 when there is none
    pc,               \* where the flow instance is waiting
    _host,            \* self._host
    _username,        \* self._username
    _password,        \* self._password
    _user_input,      \* self._user_input
    _disable_privacy, \* self._disable_privacy
    unique_id,        \* self.unique_id (context["unique_id"])
    discovery_info,   \* the DhcpServiceInfo of a discovery flow
    user_input,       \* user_input of the async_step_user invocation in progress
    raised,           \* the exception the try block of async_step_user raised
    mac_address,      \* host.api.mac_address of the session in progress
    errors,           \* errors of the async_step_user invocation
    placeholders,     \* placeholders of the async_step_user invocation
    result,           \* the ConfigFlowResult the last handler returned; NoResult
                      \* while a handler is running
    form_has_host,    \* whether the user form last shown carries the host field
    trace,            \* calls made on the ReolinkHost of the invocation, in order
    clock,            \* seconds slept in asyncio.sleep(API_STARTUP_TIME)
    entries_before,   \* the entry store when the invocation in progress started
    dhcp_check,       \* what async_step_dhcp did about a record at another address:
                      \* None before it ran, "skipped", "connected", "pending", or
                      \* the outcome of the probe of the discovered address
    logged,           \* whether the invocation called _LOGGER.exception
    remembered,       \* an earlier invocation of async_step_user of the flow
                      \* instance, kept to compare a later one with it
    \* ---- ReolinkOptionsFlowHandler and check_webhook_reachability ----
    config_options,   \* the stored Options Record (self.config_options)
    protocol,         \* self.protocol
    webhook_reverse_proxy, \* self.webhook_reverse_proxy
    opt_pc,           \* where the options flow is waiting
    opt_input,        \* user_input of async_step_init, NoOptionsInput before a submission
    opt_before,       \* the stored Options Record when opt_input was submitted
    opt_result,       \* the result async_step_init returned last
    opt_errors,       \* errors of async_step_init
    opt_placeholders, \* placeholders of async_step_init
    handlers,         \* webhook ids registered with the webhook component
    webhook_id,       \* webhook_id of check_webhook_reachability
    webhook_reachable,\* the nonlocal flag handle_webhook sets
    post_sent,        \* whether the outbound POST of this check was issued
    check_pc,         \* position inside check_webhook_reachability
    check_outcome,    \* how check_webhook_reachability ended
    elapsed,          \* seconds since async_timeout.timeout was entered
    requests,         \* the running handle_webhook calls that await request.text()
    delivered,        \* bodies handle_webhook compared before the check ended
    echoed,           \* whether a request carrying the id reached the webhook path
    ncallbacks        \* requests sent to the webhook path since registration

flowVars == <<source, flow_entry, pc, _host, _username, _password, _user_input,
              _disable_privacy, unique_id, discovery_info, dhcp_check, user_input, raised, logged,
              mac_address, errors, placeholders, result, form_has_host, trace,
              clock, entries_before, remembered>>
storeVars == <<entries, reloads>>
optVars == <<config_options, protocol, webhook_reverse_proxy, opt_pc, opt_input,
             opt_before, opt_result, opt_errors, opt_placeholders>>
checkVars == <<handlers, webhook_id, webhook_reachable, post_sent, check_pc,
               check_outcome, elapsed, requests, delivered, echoed, ncallbacks>>
vars == <<storeVars, flowVars, optVars, checkVars>>

None == "None"

\* ---- the values the model draws inputs from ----
Flows == {"f1", "f2"}
Hosts == {"h1", "h2"}
Macs == {"aa:01", "aa:02"}      \* unique keys (normalised)
DhcpMacs == {"aa01", "aa02"}    \* DhcpServiceInfo.macaddress
ApiMacs == {"AA:01", "AA:02"}   \* host.api.mac_address
Usernames == {"admin"}
Passwords == {"p1", "p2"}
Protocols == {"rtsp", "rtmp", "flv"}            \* the options of the selector
ProxyAddrs == {"https://a", "https://b"}        \* reverse-proxy base URLs
Tokens == {"t1", "t2"}                          \* webhook.async_generate_id()
StatusCodes == {404, 500}                       \* non-success HTTP statuses
MaxCallbacks == 2                               \* requests sent to the webhook path per check

\* ---- constants of config_flow.py ----
DEFAULT_PROTOCOL == "rtsp"
DEFAULT_ONVIF_EVENTS_REVERSE_PROXY == ""
DEFAULT_OPTIONS ==
    [protocol |-> DEFAULT_PROTOCOL,
     onvif_events_reverse_proxy |-> DEFAULT_ONVIF_EVENTS_REVERSE_PROXY]
API_STARTUP_TIME == 5
WEBHOOK_REACHABILITY_TEST_TIMEOUT == 10
SOURCE_USER == "user"
SOURCE_DHCP == "dhcp"
SOURCE_REAUTH == "reauth"
SOURCE_RECONFIGURE == "reconfigure"
Sources == {SOURCE_USER, SOURCE_DHCP, SOURCE_REAUTH, SOURCE_RECONFIGURE}

(***************************************************************************)
(* Exceptions.  Parent gives the base class of each exception class the    *)
(* flow names; an except clause catches a class and all its subclasses.    *)
(***************************************************************************)
Parent ==
    [UserNotAdmin |-> "ReolinkException",
     PasswordIncompatible |-> "ReolinkException",
     ReolinkWebhookException |-> "ReolinkException",
     ReolinkException |-> "Exception",
     LoginPrivacyModeError |-> "ReolinkError",
     CredentialsInvalidError |-> "ReolinkError",
     LoginFirmwareError |-> "ReolinkError",
     ApiError |-> "ReolinkError",
     ReolinkError |-> "Exception"]

RECURSIVE IsInstance(_, _)
IsInstance(cls, base) ==
    \/ cls = base
    \/ cls \in DOMAIN Parent /\ IsInstance(Parent[cls], base)

\* What a call on the ReolinkHost may raise.
Raisable == DOMAIN Parent \cup {"Exception"}

\* A dict is a set of <<key, value>> pairs; Update(d, u) is d.update(u).
Update(d, u) == {p \in d : \A q \in u : q[1] # p[1]} \cup u

Set(v, f, x) == [v EXCEPT ![f] = x]

(***************************************************************************)
(* The except clauses of async_step_user, in source order.  Each gives the *)
(* classes it names, the errors and placeholders its body sets, whether it *)
(* logs, and where it sends the flow ("form": fall through to the          *)
(* re-prompt; "privacy": return async_step_privacy()).                     *)
(***************************************************************************)
Clause(classes, errs, phs, logs, next) ==
    [classes |-> classes, errors |-> errs, placeholders |-> phs,
     logged |-> logs, next |-> next]

\* The privacy clause without its return: the handler goes on to the code after
\* the try statement.
PrivacyClauseFallsThrough == Clause({"LoginPrivacyModeError"}, {}, {}, FALSE, "form")

\* Lines 342-344: self._user_input = user_input; return await self.async_step_privacy()
PrivacyClause == Clause({"LoginPrivacyModeError"}, {}, {}, FALSE, "privacy")

SpecificClauses ==
    << Clause({"UserNotAdmin"},
              {<<"username", "not_admin">>},
              {<<"username", "host.api.username">>,
               <<"userlevel", "host.api.user_level">>}, FALSE, "form"),
       Clause({"PasswordIncompatible"},
              {<<"password", "password_incompatible">>},
              {<<"special_chars", "ALLOWED_SPECIAL_CHARS">>}, FALSE, "form"),
       PrivacyClause,
       Clause({"CredentialsInvalidError"},
              {<<"password", "invalid_auth">>}, {}, FALSE, "form"),
       Clause({"LoginFirmwareError"},
              {<<"base", "update_needed">>},
              {<<"current_firmware", "host.api.sw_version">>,
               <<"needed_firmware", "host.api.sw_version_required">>,
               <<"download_center_url", "https://reolink.com/download-center">>},
              FALSE, "form"),
       Clause({"ApiError"},
              {<<"host", "api_error">>}, {<<"error", "str(err)">>}, FALSE, "form"),
       Clause({"ReolinkWebhookException"},
              {<<"base", "webhook_exception">>},
              {<<"error", "str(err)">>, <<"more_info", "no-url-available">>},
              FALSE, "form") >>

GenericClause ==
    Clause({"ReolinkError", "ReolinkException"},
           {<<"host", "cannot_connect">>}, {<<"error", "str(err)">>}, FALSE, "form")

\* The catch-all clause without the call of _LOGGER.exception.
CatchAllClauseSilent ==
    Clause({"Exception"},
           {<<"host", "unknown">>}, {<<"error", "str(err)">>}, FALSE, "form")

\* Lines 368-371
CatchAllClause ==
    Clause({"Exception"},
           {<<"host", "unknown">>}, {<<"error", "str(err)">>}, TRUE, "form")

\* The clauses with the generic (ReolinkError, ReolinkException) clause written first.
ExceptClausesGenericFirst == <<GenericClause>> \o SpecificClauses \o <<CatchAllClause>>

ExceptClauses == SpecificClauses \o <<GenericClause, CatchAllClause>>

Catches(i, exc) == \E c \in ExceptClauses[i].classes : IsInstance(exc, c)

\* The clause that handles exc: the first one, in source order, that catches it.
CaughtBy(exc) ==
    ExceptClauses[CHOOSE i \in 1..Len(ExceptClauses) :
                    Catches(i, exc) /\ \A j \in 1..(i - 1) : ~Catches(j, exc)]

\* placeholders as async_step_user initialises them
InitialPlaceholders ==
    {<<"error", "">>, <<"troubleshooting_link", "reolink/#troubleshooting">>}

\* homeassistant format_mac: the normalised form of a hardware address, whether
\* it arrives as the DHCP payload writes it or as the camera API reports it.
format_mac(raw) ==
    CASE raw \in {"aa01", "AA:01", "aa:01"} -> "aa:01"
      [] raw \in {"aa02", "AA:02", "aa:02"} -> "aa:02"
      [] OTHER -> raw

\* ---- records ----
Data(h, u, p, a) == [host |-> h, username |-> u, password |-> p, attrs |-> a]
Entry(uid, data) == [unique_id |-> uid, data |-> data]
Result(type, name, errs, phs) ==
    [type |-> type, name |-> name, errors |-> errs, placeholders |-> phs]
NoResult == Result(None, None, {}, {})
Abort(reason) == Result("abort", reason, {}, {})

\* An options dict; reverse_proxy None: the key is absent.
OptionsData(p, reverse_proxy) ==
    [protocol |-> p, onvif_events_reverse_proxy |-> reverse_proxy]

OptionsInputs ==
    {OptionsData(p, a) : p \in Protocols, a \in {None, ""} \cup ProxyAddrs}

\* async_step_init(None): nothing submitted.
NoOptionsInput == OptionsData(None, None)

\* How check_webhook_reachability ends.
Return(v) == [kind |-> "return", value |-> v, exc |-> None, status |-> None]
Raised(exc, status) == [kind |-> "raise", value |-> None, exc |-> exc, status |-> status]
NoOutcome == [kind |-> None, value |-> None, exc |-> None, status |-> None]

\* hass.config_entries.async_entry_for_domain_unique_id: index of the record, or 0
EntryFor(uid) ==
    IF \E i \in 1..Len(entries) : entries[i].unique_id = uid
    THEN CHOOSE i \in 1..Len(entries) : entries[i].unique_id = uid
    ELSE 0

(***************************************************************************)
(* ReolinkFlowHandler                                                      *)
(***************************************************************************)

\* Lines 403-429: the user form (async_step_user past the submitted branch).
\* h is self._host at that point.
ShowUserForm(f, h, errs, phs) ==
    /\ pc' = Set(pc, f, "user")
    /\ result' = Set(result, f, Result("form", "user", errs, phs))
    /\ form_has_host' =
           Set(form_has_host, f, h = None \/ source[f] = SOURCE_RECONFIGURE \/ errs # {})

\* raise AbortFlow(reason) / async_abort(reason)
AbortFlow(f, reason) ==
    /\ pc' = Set(pc, f, "done")
    /\ result' = Set(result, f, Abort(reason))
    /\ UNCHANGED form_has_host

\* The framework starts a user flow with async_step_user(None).
async_step_user_start(f) ==
    /\ pc[f] = "start"
    /\ source[f] = SOURCE_USER
    /\ ShowUserForm(f, _host[f], {}, InitialPlaceholders)
    /\ UNCHANGED <<storeVars, source, flow_entry, _host, _username, _password,
                   _user_input, _disable_privacy, unique_id, discovery_info, dhcp_check,
                   user_input, raised, logged, mac_address, errors, placeholders, trace,
                   clock, entries_before, optVars, checkVars>>

\* Prefill of async_step_reauth and async_step_reconfigure from the entry's data,
\* followed by async_step_user(None).
PrefillFromEntry(f) ==
    LET entry_data == entries[flow_entry[f]].data IN
    /\ pc[f] = "start"
    /\ _host' = Set(_host, f, entry_data.host)
    /\ _username' = Set(_username, f, entry_data.username)
    /\ _password' = Set(_password, f, entry_data.password)
    /\ ShowUserForm(f, entry_data.host, {}, InitialPlaceholders)
    /\ UNCHANGED <<storeVars, source, flow_entry, _user_input, _disable_privacy,
                   unique_id, discovery_info, dhcp_check, user_input, raised, logged, mac_address,
                   errors, placeholders, trace, clock, entries_before, optVars,
                   checkVars>>

async_step_reauth(f) ==
    /\ source[f] = SOURCE_REAUTH
    /\ PrefillFromEntry(f)

async_step_reconfigure(f) ==
    /\ source[f] = SOURCE_RECONFIGURE
    /\ PrefillFromEntry(f)

\* Line 284: self._abort_if_unique_id_configured(updates={CONF_HOST: ip}) and the
\* rest of async_step_dhcp.  With a record of that key the framework writes the
\* updates into it, schedules a reload when that changed it, and aborts.
DhcpTail(f, mac, ip) ==
    LET e == EntryFor(mac) IN
    IF e # 0
    THEN /\ entries' = [entries EXCEPT ![e].data.host = ip]
         /\ reloads' = IF entries[e].data.host # ip THEN reloads \cup {e} ELSE reloads
         /\ AbortFlow(f, "already_configured")
         /\ UNCHANGED _host
    ELSE /\ _host' = Set(_host, f, ip)
         /\ ShowUserForm(f, ip, {}, InitialPlaceholders)
         /\ UNCHANGED storeVars

\* async_step_dhcp up to its first await on the camera (host.api.get_state), or
\* to its end when the reachability check is not entered.  connected is
\* is_connected(hass, existing_entry).
async_step_dhcp(f) ==
    /\ pc[f] = "start"
    /\ source[f] = SOURCE_DHCP
    /\ \E raw \in DhcpMacs, ip \in Hosts, connected \in BOOLEAN :
          LET mac == format_mac(raw)
              existing_entry == EntryFor(mac)
          IN
          /\ unique_id' = Set(unique_id, f, mac)
          /\ discovery_info' = Set(discovery_info, f, [macaddress |-> raw, ip |-> ip])
          /\ IF /\ existing_entry # 0
                /\ entries[existing_entry].data.password # None
                /\ entries[existing_entry].data.host # ip
             THEN IF connected
                  THEN /\ dhcp_check' = Set(dhcp_check, f, "connected")
                       /\ AbortFlow(f, "already_configured")
                       /\ UNCHANGED <<storeVars, _host>>
                  ELSE /\ dhcp_check' = Set(dhcp_check, f, "pending")
                       /\ pc' = Set(pc, f, "dhcp_get_state")
                       /\ UNCHANGED <<storeVars, _host, result, form_has_host>>
             ELSE /\ dhcp_check' = Set(dhcp_check, f, "skipped")
                  /\ DhcpTail(f, mac, ip)
    /\ UNCHANGED <<source, flow_entry, _username, _password, _user_input,
                   _disable_privacy, user_input, raised, logged, mac_address, errors,
                   placeholders, trace, clock, entries_before, optVars, checkVars>>

\* The check without the comparison of the hardware addresses.
CheckPassedAnyIdentity(out, mac) == out # "ReolinkError"

\* Lines 254-275: whether the probe of the discovered address lets the flow go
\* on: out is the exception get_state or logout raised, or host.api.mac_address.
CheckPassed(out, mac) == out # "ReolinkError" /\ format_mac(out) = mac

\* Lines 254-284: the outcome of get_state("GetLocalLink") and logout() at the
\* discovered address, the identity comparison, and the rest of async_step_dhcp.
dhcp_get_state(f) ==
    /\ pc[f] = "dhcp_get_state"
    /\ \E out \in {"ReolinkError"} \cup ApiMacs :
          LET mac == format_mac(discovery_info[f].macaddress) IN
          /\ dhcp_check' = Set(dhcp_check, f, out)
          /\ IF CheckPassed(out, mac)
             THEN DhcpTail(f, mac, discovery_info[f].ip)
             ELSE /\ AbortFlow(f, "already_configured")
                  /\ UNCHANGED <<storeVars, _host>>
    /\ UNCHANGED <<source, flow_entry, _username, _password, _user_input,
                   _disable_privacy, unique_id, discovery_info, user_input, raised,
                   logged, mac_address, errors, placeholders, trace, clock,
                   entries_before, optVars, checkVars>>

\* What the user can submit in the user form: the host only when the form shows
\* the field (host None: CONF_HOST not in user_input).
UserInputs(f) ==
    {Data(h, u, p, None) : h \in (IF form_has_host[f] THEN Hosts ELSE {None}),
                           u \in Usernames, p \in Passwords}

\* Submitted with the errors kept across invocations instead of starting empty.
SubmittedKeepsErrors(f, input, disable_privacy) ==
    LET ui == IF input.host = None THEN [input EXCEPT !.host = _host[f]] ELSE input IN
    /\ user_input' = Set(user_input, f, ui)
    /\ _username' = Set(_username, f, ui.username)
    /\ _password' = Set(_password, f, ui.password)
    /\ _host' = Set(_host, f, ui.host)
    /\ raised' = Set(raised, f, None)
    /\ logged' = Set(logged, f, FALSE)
    /\ mac_address' = Set(mac_address, f, None)
    /\ errors' = errors
    /\ placeholders' = Set(placeholders, f, InitialPlaceholders)
    /\ clock' = Set(clock, f, 0)
    /\ entries_before' = Set(entries_before, f, entries)
    /\ IF disable_privacy
       THEN /\ pc' = Set(pc, f, "set_privacy_mode")
            /\ trace' = Set(trace, f, <<"set_privacy_mode">>)
       ELSE /\ pc' = Set(pc, f, "async_init")
            /\ trace' = Set(trace, f, <<"async_init">>)
    /\ result' = Set(result, f, NoResult)
    /\ UNCHANGED <<storeVars, source, flow_entry, unique_id, discovery_info, dhcp_check,
                   form_has_host, optVars, checkVars>>

\* Lines 319-334: async_step_user with submitted input, up to its first await.
\* disable_privacy is self._disable_privacy as the invocation reads it.
Submitted(f, input, disable_privacy) ==
    LET ui == IF input.host = None THEN [input EXCEPT !.host = _host[f]] ELSE input IN
    /\ user_input' = Set(user_input, f, ui)
    /\ _username' = Set(_username, f, ui.username)
    /\ _password' = Set(_password, f, ui.password)
    /\ _host' = Set(_host, f, ui.host)
    /\ raised' = Set(raised, f, None)
    /\ logged' = Set(logged, f, FALSE)
    /\ mac_address' = Set(mac_address, f, None)
    /\ errors' = Set(errors, f, {})
    /\ placeholders' = Set(placeholders, f, InitialPlaceholders)
    /\ clock' = Set(clock, f, 0)
    /\ entries_before' = Set(entries_before, f, entries)
    /\ IF disable_privacy
       THEN /\ pc' = Set(pc, f, "set_privacy_mode")
            /\ trace' = Set(trace, f, <<"set_privacy_mode">>)
       ELSE /\ pc' = Set(pc, f, "async_init")
            /\ trace' = Set(trace, f, <<"async_init">>)
    /\ result' = Set(result, f, NoResult)
    /\ UNCHANGED <<storeVars, source, flow_entry, unique_id, discovery_info, dhcp_check,
                   form_has_host, optVars, checkVars>>

\* The user form submitted, with the privacy override cleared by the re-prompt.
async_step_user_resets_privacy(f) ==
    /\ pc[f] = "user"
    /\ \E input \in UserInputs(f) : Submitted(f, input, FALSE)
    /\ _disable_privacy' = Set(_disable_privacy, f, FALSE)
    /\ UNCHANGED _user_input

\* The user submits the user form.
async_step_user(f) ==
    /\ pc[f] = "user"
    /\ \E input \in UserInputs(f) : Submitted(f, input, _disable_privacy[f])
    /\ UNCHANGED <<_user_input, _disable_privacy>>

\* Lines 298-300: the user submits the privacy form (consent).
async_step_privacy(f) ==
    /\ pc[f] = "privacy"
    /\ _disable_privacy' = Set(_disable_privacy, f, TRUE)
    /\ Submitted(f, _user_input[f], TRUE)
    /\ UNCHANGED _user_input

\* Raise with host.stop() after the try statement instead of in a finally clause:
\* the return of the privacy clause leaves without it.
RaiseReturnsEarly(f, exc) ==
    LET c == CaughtBy(exc) IN
    /\ raised' = Set(raised, f, exc)
    /\ logged' = Set(logged, f, c.logged)
    /\ errors' = Set(errors, f, Update(errors[f], c.errors))
    /\ placeholders' = Set(placeholders, f, Update(placeholders[f], c.placeholders))
    /\ _user_input' = IF c.next = "privacy"
                      THEN Set(_user_input, f, user_input[f])
                      ELSE _user_input
    /\ IF c.next = "privacy"
       THEN /\ pc' = Set(pc, f, "privacy")
            /\ UNCHANGED trace
       ELSE /\ pc' = Set(pc, f, "stop")
            /\ trace' = Set(trace, f, Append(trace[f], "stop"))
    /\ UNCHANGED <<mac_address, clock>>

\* An exception leaves the try block: the body of the clause that catches it
\* runs, and the finally clause starts host.stop().
Raise(f, exc) ==
    LET c == CaughtBy(exc) IN
    /\ raised' = Set(raised, f, exc)
    /\ logged' = Set(logged, f, c.logged)
    /\ errors' = Set(errors, f, Update(errors[f], c.errors))
    /\ placeholders' = Set(placeholders, f, Update(placeholders[f], c.placeholders))
    /\ _user_input' = IF c.next = "privacy"
                      THEN Set(_user_input, f, user_input[f])
                      ELSE _user_input
    /\ pc' = Set(pc, f, "stop")
    /\ trace' = Set(trace, f, Append(trace[f], "stop"))
    /\ UNCHANGED <<mac_address, clock>>

\* Line 331: host.api.baichuan.set_privacy_mode(enable=False) completes.
set_privacy_mode(f) ==
    /\ pc[f] = "set_privacy_mode"
    /\ \/ /\ pc' = Set(pc, f, "sleep")
          /\ trace' = Set(trace, f, Append(trace[f], "sleep"))
          /\ UNCHANGED <<raised, logged, errors, placeholders, _user_input, mac_address, clock>>
       \/ \E exc \in Raisable : Raise(f, exc)
    /\ UNCHANGED <<storeVars, source, flow_entry, _host, _username, _password,
                   _disable_privacy, unique_id, discovery_info, dhcp_check, user_input, result,
                   form_has_host, entries_before, optVars, checkVars>>

\* One second of asyncio.sleep(API_STARTUP_TIME) passes.
sleep_tick(f) ==
    /\ pc[f] = "sleep"
    /\ clock[f] < API_STARTUP_TIME
    /\ clock' = Set(clock, f, clock[f] + 1)
    /\ UNCHANGED <<storeVars, source, flow_entry, pc, _host, _username, _password,
                   _user_input, _disable_privacy, unique_id, discovery_info, dhcp_check,
                   user_input, raised, logged, mac_address, errors, placeholders, result,
                   form_has_host, trace, entries_before, optVars, checkVars>>

\* sleep_done without the wait: async_init is called as soon as the sleep starts.
sleep_done_early(f) ==
    /\ pc[f] = "sleep"
    /\ pc' = Set(pc, f, "async_init")
    /\ trace' = Set(trace, f, Append(trace[f], "async_init"))
    /\ UNCHANGED <<storeVars, source, flow_entry, _host, _username, _password,
                   _user_input, _disable_privacy, unique_id, discovery_info, dhcp_check,
                   user_input, raised, logged, mac_address, errors, placeholders, result,
                   form_has_host, clock, entries_before, optVars, checkVars>>

\* Lines 333-334: the sleep is over and host.async_init() is called.
sleep_done(f) ==
    /\ pc[f] = "sleep"
    /\ clock[f] = API_STARTUP_TIME
    /\ pc' = Set(pc, f, "async_init")
    /\ trace' = Set(trace, f, Append(trace[f], "async_init"))
    /\ UNCHANGED <<storeVars, source, flow_entry, _host, _username, _password,
                   _user_input, _disable_privacy, unique_id, discovery_info, dhcp_check,
                   user_input, raised, logged, mac_address, errors, placeholders, result,
                   form_has_host, clock, entries_before, optVars, checkVars>>

\* Line 334: host.async_init() completes, with the device identity or an exception.
async_init(f) ==
    /\ pc[f] = "async_init"
    /\ \/ \E raw \in ApiMacs :
             /\ mac_address' = Set(mac_address, f, raw)
             /\ pc' = Set(pc, f, "stop")
             /\ trace' = Set(trace, f, Append(trace[f], "stop"))
             /\ UNCHANGED <<raised, logged, errors, placeholders, _user_input, clock>>
       \/ \E exc \in Raisable : Raise(f, exc)
    /\ UNCHANGED <<storeVars, source, flow_entry, _host, _username, _password,
                   _disable_privacy, unique_id, discovery_info, dhcp_check, user_input, result,
                   form_has_host, entries_before, optVars, checkVars>>

\* self._abort_if_unique_id_mismatch(): whether it aborts, for the reauth or
\* reconfigure entry e and the unique id the flow has just set.
abort_if_unique_id_mismatch_skipped(e, mac) == FALSE

abort_if_unique_id_mismatch(e, mac) == entries[e].unique_id # mac

\* self._abort_if_unique_id_configured() without updates: whether it aborts.
abort_if_unique_id_configured_skipped(mac) == FALSE

abort_if_unique_id_configured(mac) == EntryFor(mac) # 0

\* The success path without the branch for SOURCE_RECONFIGURE.
UpdatesEntryReauthOnly(src) == src = SOURCE_REAUTH

\* Lines 385-395: the sources whose flow updates its own entry and creates none.
UpdatesEntry(src) == src \in {SOURCE_REAUTH, SOURCE_RECONFIGURE}

\* Lines 376-381: the attributes the session discovered, merged into user_input.
Merged(ui) == [ui EXCEPT !.attrs = "resolved"]

\* Lines 375-401: the probe succeeded.
Finish(f) ==
    LET mac == format_mac(mac_address[f])
        data == Merged(user_input[f])
        e == flow_entry[f]
    IN
    /\ unique_id' = Set(unique_id, f, mac)
    /\ IF UpdatesEntry(source[f])
       THEN IF abort_if_unique_id_mismatch(e, mac)
            THEN /\ AbortFlow(f, "unique_id_mismatch")
                 /\ UNCHANGED storeVars
            ELSE \* async_update_reload_and_abort(entry, data=user_input)
                 /\ entries' = [entries EXCEPT ![e].data = data]
                 /\ reloads' = reloads \cup {e}
                 /\ AbortFlow(f, IF source[f] = SOURCE_REAUTH
                                 THEN "reauth_successful"
                                 ELSE "reconfigure_successful")
       ELSE IF abort_if_unique_id_configured(mac)
            THEN /\ AbortFlow(f, "already_configured")
                 /\ UNCHANGED storeVars
            ELSE \* async_create_entry(title, data=user_input, options=DEFAULT_OPTIONS)
                 /\ entries' = Append(entries, Entry(mac, data))
                 /\ pc' = Set(pc, f, "done")
                 /\ result' = Set(result, f, Result("create_entry", "nvr_name", {}, {}))
                 /\ UNCHANGED <<reloads, form_has_host>>

\* Lines 373-429: host.stop() of the finally clause completes and the handler
\* returns: the privacy form, the user form with the errors, or the success path.
host_stop(f) ==
    /\ pc[f] = "stop"
    /\ IF raised[f] # None /\ CaughtBy(raised[f]).next = "privacy"
       THEN /\ pc' = Set(pc, f, "privacy")
            /\ result' = Set(result, f,
                   Result("form", "privacy", {}, {<<"host", _user_input[f].host>>}))
            /\ UNCHANGED <<storeVars, unique_id, form_has_host>>
       ELSE IF errors[f] # {}
            THEN /\ ShowUserForm(f, _host[f], errors[f], placeholders[f])
                 /\ UNCHANGED <<storeVars, unique_id>>
            ELSE Finish(f)
    /\ UNCHANGED <<source, flow_entry, _host, _username, _password, _user_input,
                   _disable_privacy, discovery_info, dhcp_check, user_input, raised, logged, mac_address,
                   errors, placeholders, trace, clock, entries_before, optVars,
                   checkVars>>

(***************************************************************************)
(* Specification of the onboarding flow: one flow instance of any source,  *)
(* over an entry store holding at most one record per unique key.          *)
(***************************************************************************)
StoredData(h) == Data(h, "admin", "p1", "resolved")

\* A record whose data holds no CONF_PASSWORD: the case line 238 tests for.
StoredDataNoPassword(h) == Data(h, "admin", None, "resolved")

InitStores ==
    {<<>>}
    \cup {<<Entry(m, StoredData(h))>> : m \in Macs, h \in Hosts}
    \cup {<<Entry("aa:01", StoredDataNoPassword(h))>> : h \in Hosts}
    \cup {<<Entry("aa:01", StoredData(h1)), Entry("aa:02", StoredData(h2))>> :
              h1 \in Hosts, h2 \in Hosts}

\* No invocation of async_step_user is remembered.
NoInvocation ==
    [input |-> Data(None, None, None, None), calls |-> <<>>, raised |-> None,
     mac |-> None, errors |-> {}, next |-> None]

\* ReolinkFlowHandler.__init__
InitFlowHandler ==
    /\ remembered = [f \in Flows |-> NoInvocation]
    /\ _host = [f \in Flows |-> None]
    /\ _username = [f \in Flows |-> "admin"]
    /\ _password = [f \in Flows |-> None]
    /\ _user_input = [f \in Flows |-> None]
    /\ _disable_privacy = [f \in Flows |-> FALSE]
    /\ unique_id = [f \in Flows |-> None]
    /\ discovery_info = [f \in Flows |-> None]
    /\ user_input = [f \in Flows |-> None]
    /\ raised = [f \in Flows |-> None]
    /\ mac_address = [f \in Flows |-> None]
    /\ errors = [f \in Flows |-> {}]
    /\ placeholders = [f \in Flows |-> {}]
    /\ result = [f \in Flows |-> NoResult]
    /\ form_has_host = [f \in Flows |-> FALSE]
    /\ trace = [f \in Flows |-> <<>>]
    /\ clock = [f \in Flows |-> 0]
    /\ entries_before = [f \in Flows |-> entries]
    /\ dhcp_check = [f \in Flows |-> None]
    /\ logged = [f \in Flows |-> FALSE]

\* The flow context the framework sets up: the source, and the entry of a reauth
\* or reconfigure flow.
ValidContext ==
    /\ source \in [Flows -> Sources]
    /\ flow_entry \in [Flows -> 0..Len(entries)]
    /\ \A f \in Flows :
          (flow_entry[f] # 0) <=> (source[f] \in {SOURCE_REAUTH, SOURCE_RECONFIGURE})

\* No flow instance f exists.
Absent(f) == pc[f] = "absent" /\ source[f] = SOURCE_USER

\* One flow instance, f1, is started over one of the entry stores.
InitFlow ==
    /\ entries \in InitStores
    /\ reloads = {}
    /\ ValidContext
    /\ pc \in [Flows -> {"start", "absent"}]
    /\ pc["f1"] = "start"
    /\ Absent("f2")
    /\ InitFlowHandler

\* ReolinkOptionsFlowHandler.__init__ over the default options; no check running.
InitOptions ==
    /\ config_options = DEFAULT_OPTIONS
    /\ protocol = DEFAULT_OPTIONS.protocol
    /\ webhook_reverse_proxy = DEFAULT_OPTIONS.onvif_events_reverse_proxy
    /\ opt_pc = "form"
    /\ opt_input = NoOptionsInput
    /\ opt_before = DEFAULT_OPTIONS
    /\ opt_result = NoResult
    /\ opt_errors = {}
    /\ opt_placeholders = {}
    /\ handlers = {}
    /\ webhook_id = None
    /\ webhook_reachable = FALSE
    /\ post_sent = FALSE
    /\ check_pc = "idle"
    /\ check_outcome = NoOutcome
    /\ elapsed = 0
    /\ requests = {}
    /\ delivered = {}
    /\ echoed = FALSE
    /\ ncallbacks = 0

Init == InitFlow /\ InitOptions

Next ==
    \E f \in Flows :
        \/ async_step_user_start(f) /\ UNCHANGED remembered
        \/ async_step_reauth(f) /\ UNCHANGED remembered
        \/ async_step_reconfigure(f) /\ UNCHANGED remembered
        \/ async_step_dhcp(f) /\ UNCHANGED remembered
        \/ dhcp_get_state(f) /\ UNCHANGED remembered
        \/ async_step_user(f) /\ UNCHANGED remembered
        \/ async_step_privacy(f) /\ UNCHANGED remembered
        \/ set_privacy_mode(f) /\ UNCHANGED remembered
        \/ sleep_tick(f) /\ UNCHANGED remembered
        \/ sleep_done(f) /\ UNCHANGED remembered
        \/ async_init(f) /\ UNCHANGED remembered
        \/ host_stop(f) /\ UNCHANGED remembered

Spec == Init /\ [][Next]_vars

(***************************************************************************)
(* Properties of the onboarding flow (checked under Spec)                  *)
(***************************************************************************)
StopCount(f) == Cardinality({i \in DOMAIN trace[f] : trace[f][i] = "stop"})

\* The flow instance is back with the user or has ended.
Returned(f) == pc[f] \in {"user", "privacy", "done"}

\* async_step_user has run with submitted input in this flow instance.
Invoked(f) == trace[f] # <<>>

\* C1: every invocation of the user step with input calls host.stop() exactly
\* once before control returns to the user, on every branch (success, each
\* classified failure, the privacy hand-off, an unexpected failure, a failure
\* raised by set_privacy_mode); while the try block runs it has not been called.
C1_CleanupExactlyOnce ==
    \A f \in Flows :
        /\ StopCount(f) <= 1
        /\ (Invoked(f) /\ Returned(f)) =>
               (StopCount(f) = 1 /\ trace[f][Len(trace[f])] = "stop")
        /\ pc[f] \in {"set_privacy_mode", "sleep", "async_init"} => StopCount(f) = 0

C1_Witness ==
    \E f \in Flows :
        /\ pc[f] = "privacy"
        /\ trace[f] = <<"set_privacy_mode", "stop">>
        /\ raised[f] = "LoginPrivacyModeError"

\* The table of section 4.1 of the specification: signal -> the one error.
ClassifiedError ==
    [UserNotAdmin |-> <<"username", "not_admin">>,
     PasswordIncompatible |-> <<"password", "password_incompatible">>,
     CredentialsInvalidError |-> <<"password", "invalid_auth">>,
     LoginFirmwareError |-> <<"base", "update_needed">>,
     ApiError |-> <<"host", "api_error">>,
     ReolinkWebhookException |-> <<"base", "webhook_exception">>,
     ReolinkError |-> <<"host", "cannot_connect">>,
     ReolinkException |-> <<"host", "cannot_connect">>]

\* C2: after an invocation that raised a classified signal, the flow is back at
\* the user form with exactly the one error of the table and the entry store as
\* it was; after the privacy-mode signal it is at the privacy form with no error.
C2_Classification ==
    \A f \in Flows :
        (raised[f] # None /\ Returned(f)) =>
            /\ entries = entries_before[f]
            /\ raised[f] = "LoginPrivacyModeError" =>
                   /\ pc[f] = "privacy"
                   /\ result[f].type = "form"
                   /\ result[f].name = "privacy"
                   /\ result[f].errors = {}
            /\ raised[f] \in DOMAIN ClassifiedError =>
                   /\ pc[f] = "user"
                   /\ result[f].type = "form"
                   /\ result[f].name = "user"
                   /\ result[f].errors = {ClassifiedError[raised[f]]}

C2_Witness ==
    \E f \in Flows :
        /\ pc[f] = "user"
        /\ raised[f] = "ApiError"
        /\ result[f].errors = {<<"host", "api_error">>}
        /\ source[f] = SOURCE_REAUTH

\* C3: consent in the privacy step re-invokes the user step with the stored
\* pending input, and in every invocation made with the privacy override the
\* order is set_privacy_mode, then the whole settle delay, then async_init.
C3_ConsentOrder ==
    /\ [](\A f \in Flows :
            /\ (_disable_privacy[f] /\ Invoked(f)) => trace[f][1] = "set_privacy_mode"
            /\ (_disable_privacy[f] /\ \E i \in DOMAIN trace[f] : trace[f][i] = "async_init") =>
                   /\ Len(trace[f]) >= 3
                   /\ SubSeq(trace[f], 1, 3) = <<"set_privacy_mode", "sleep", "async_init">>
                   /\ clock[f] = API_STARTUP_TIME)
    /\ [][\A f \in Flows :
            (pc[f] = "privacy" /\ pc'[f] # "privacy") =>
                /\ user_input'[f] = _user_input[f]
                /\ _disable_privacy'[f]
                /\ pc'[f] = "set_privacy_mode"
                /\ trace'[f] = <<"set_privacy_mode">>]_vars

C3_Witness ==
    \E f \in Flows :
        /\ pc[f] = "async_init"
        /\ trace[f] = <<"set_privacy_mode", "sleep", "async_init">>
        /\ user_input[f] = _user_input[f]
        /\ clock[f] = API_STARTUP_TIME

\* The probe of the invocation succeeded and the handler has returned.
ProbeSucceeded(f) == pc[f] = "done" /\ mac_address[f] # None /\ raised[f] = None

\* C4: in a fresh or discovery flow, a successful probe whose hardware identifier
\* is the unique key of a stored record at another address than the submitted
\* one aborts with already_configured and leaves the entry store as it was.
C4_AlreadyConfigured ==
    \A f \in Flows :
        ( /\ source[f] \in {SOURCE_USER, SOURCE_DHCP}
          /\ ProbeSucceeded(f)
          /\ \E i \in DOMAIN entries_before[f] :
                /\ entries_before[f][i].unique_id = format_mac(mac_address[f])
                /\ entries_before[f][i].data.host # user_input[f].host )
        => /\ result[f] = Abort("already_configured")
           /\ entries = entries_before[f]

C4_Witness ==
    \E f \in Flows :
        /\ source[f] = SOURCE_DHCP
        /\ ProbeSucceeded(f)
        /\ result[f] = Abort("already_configured")
        /\ \E i \in DOMAIN entries :
              /\ entries[i].unique_id = format_mac(mac_address[f])
              /\ entries[i].data.host # user_input[f].host

\* The entry of a reauth flow was updated in place with the submitted data and
\* its reload scheduled; nothing was created and no other record touched.
UpdatedInPlace(f) ==
    LET e == flow_entry[f] IN
    /\ result[f] = Abort("reauth_successful")
    /\ Len(entries) = Len(entries_before[f])
    /\ entries[e].unique_id = entries_before[f][e].unique_id
    /\ entries[e].data = [user_input[f] EXCEPT !.attrs = "resolved"]
    /\ e \in reloads
    /\ \A i \in DOMAIN entries : i # e => entries[i] = entries_before[f][i]

\* C5 as claimed: in a reauth flow every successful probe updates the flow's
\* record in place and reloads it, creating nothing.
C5_Original ==
    \A f \in Flows :
        (source[f] = SOURCE_REAUTH /\ ProbeSucceeded(f)) => UpdatedInPlace(f)

\* C5 amended: in a reauth flow a successful probe whose hardware identifier
\* equals the record's unique key updates the record in place with the submitted
\* data and reloads it, creating nothing, also when the submitted host differs
\* from the stored one; when the identifier differs from the record's key the
\* flow aborts with unique_id_mismatch and the entry store is as it was.
C5_ReauthUpdatesMatchingRecord ==
    \A f \in Flows :
        (source[f] = SOURCE_REAUTH /\ ProbeSucceeded(f)) =>
            IF format_mac(mac_address[f]) = entries_before[f][flow_entry[f]].unique_id
            THEN UpdatedInPlace(f)
            ELSE /\ result[f] = Abort("unique_id_mismatch")
                 /\ entries = entries_before[f]

C5_Witness ==
    \E f \in Flows :
        /\ source[f] = SOURCE_REAUTH
        /\ ProbeSucceeded(f)
        /\ UpdatedInPlace(f)
        /\ entries[flow_entry[f]].data.host # entries_before[f][flow_entry[f]].data.host

\* The record of the discovered key that the discovery flow f found stored at
\* another address than the discovered one, when its async_step_dhcp has run.
StoredElsewhere(f) ==
    /\ source[f] = SOURCE_DHCP
    /\ dhcp_check[f] # None
    /\ \E i \in DOMAIN entries_before[f] :
          /\ entries_before[f][i].unique_id = format_mac(discovery_info[f].macaddress)
          /\ entries_before[f][i].data.host # discovery_info[f].ip

\* The probe of the discovered address raised, or answered with another
\* hardware address than the discovered one.
CheckFailed(f) ==
    \/ dhcp_check[f] = "ReolinkError"
    \/ /\ dhcp_check[f] \in ApiMacs
       /\ format_mac(dhcp_check[f]) # format_mac(discovery_info[f].macaddress)

\* C13: in a discovery flow that found the discovered key stored at another
\* address, when the probe of the discovered address raises a device error or
\* reports another hardware address, the flow has aborted with
\* already_configured and the entry store is as it was, no reload scheduled.
C13_FailedCheckAborts ==
    \A f \in Flows :
        (StoredElsewhere(f) /\ CheckFailed(f)) =>
            /\ pc[f] = "done"
            /\ result[f] = Abort("already_configured")
            /\ entries = entries_before[f]
            /\ reloads = {}

C13_Witness ==
    \E f \in Flows :
        /\ StoredElsewhere(f)
        /\ dhcp_check[f] = "AA:02"
        /\ unique_id[f] = "aa:01"
        /\ result[f] = Abort("already_configured")
        /\ entries = <<Entry("aa:01", StoredData("h1")), Entry("aa:02", StoredData("h2"))>>
        /\ discovery_info[f].ip = "h2"

\* The exception classes section 4.1 of the specification classifies.
Classified == DOMAIN ClassifiedError \cup {"LoginPrivacyModeError"}

\* C14: a failure of the probe that is none of the classified signals is
\* logged and reported as the one error unknown on the host field with the
\* error text as placeholder, in the user form, the entry store as it was; and
\* after any failure of the probe the flow instance is at a form, not ended.
C14_CatchAll ==
    \A f \in Flows :
        /\ (raised[f] # None /\ Returned(f)) =>
               /\ pc[f] \in {"user", "privacy"}
               /\ result[f].type = "form"
        /\ (raised[f] # None /\ raised[f] \notin Classified /\ pc[f] # "stop") =>
               /\ logged[f]
               /\ pc[f] = "user"
               /\ result[f] =
                      Result("form", "user", {<<"host", "unknown">>},
                             {<<"error", "str(err)">>,
                              <<"troubleshooting_link", "reolink/#troubleshooting">>})
               /\ entries = entries_before[f]
        /\ (raised[f] \in Classified) => ~logged[f]

C14_Witness ==
    \E f \in Flows :
        /\ raised[f] = "Exception"
        /\ trace[f] = <<"set_privacy_mode", "stop">>
        /\ pc[f] = "user"
        /\ logged[f]
        /\ result[f].errors = {<<"host", "unknown">>}
        /\ form_has_host[f]

\* C15: after a privacy-mode block the flow waits at the privacy form, the
\* session stopped, the pending input stored and the entry store as it was; and
\* the only step the flow takes from there is the consent, which alone starts
\* the next invocation: until then no call is made on the device, the pending
\* input and the override flag keep their values and no record changes.
C15_WaitsForConsent ==
    /\ [](\A f \in Flows :
            /\ (raised[f] = "LoginPrivacyModeError" /\ Returned(f)) => pc[f] = "privacy"
            /\ pc[f] = "privacy" =>
                   /\ raised[f] = "LoginPrivacyModeError"
                   /\ _user_input[f] = user_input[f]
                   /\ result[f] = Result("form", "privacy", {},
                                         {<<"host", _user_input[f].host>>})
                   /\ trace[f][Len(trace[f])] = "stop"
                   /\ entries = entries_before[f])
    /\ [][\A f \in Flows :
            pc[f] = "privacy" =>
                /\ entries' = entries
                /\ reloads' = reloads
                /\ \/ /\ pc'[f] = "privacy"
                      /\ trace'[f] = trace[f]
                      /\ _user_input'[f] = _user_input[f]
                      /\ _disable_privacy'[f] = _disable_privacy[f]
                   \/ /\ pc'[f] = "set_privacy_mode"
                      /\ _disable_privacy'[f]
                      /\ user_input'[f] = _user_input[f]]_vars

C15_Witness ==
    \E f \in Flows :
        /\ pc[f] = "privacy"
        /\ ~_disable_privacy[f]
        /\ trace[f] = <<"async_init", "stop">>
        /\ _user_input[f] = Data("h2", "admin", "p2", None)
        /\ source[f] = SOURCE_USER
        /\ entries # <<>>

\* C16: while a reauth or reconfigure flow runs, no step adds or removes a
\* record or changes a record's unique key, also when the probed device
\* reports another hardware address than the key of the flow's record.
C16_NeverCreates ==
    [][\A f \in Flows :
         (source[f] \in {SOURCE_REAUTH, SOURCE_RECONFIGURE} /\ pc[f] \notin {"absent", "done"}) =>
             /\ Len(entries') = Len(entries)
             /\ \A i \in DOMAIN entries : entries'[i].unique_id = entries[i].unique_id]_vars

C16_Witness ==
    \E f \in Flows :
        /\ source[f] = SOURCE_RECONFIGURE
        /\ ProbeSucceeded(f)
        /\ \A i \in DOMAIN entries : entries[i].unique_id # format_mac(mac_address[f])
        /\ Len(entries) = 1
        /\ result[f] = Abort("unique_id_mismatch")

\* The stored address of a record differs from what it was when the flow's
\* invocation (for a discovery flow that has not submitted: the flow) started.
AddressMoved(f) ==
    \E i \in DOMAIN entries_before[f] :
        entries[i].data.host # entries_before[f][i].data.host

\* C19: in a discovery flow that found the discovered key stored at another
\* address, the reachability check is always made, for whatever data the record
\* holds, and the stored address is changed only after the check passed: the
\* existing connection was down, the device at the discovered address answered
\* and reported the discovered hardware address.
C19_Original ==
    \A f \in Flows :
        (StoredElsewhere(f) /\ pc[f] # "dhcp_get_state") =>
            /\ dhcp_check[f] # "skipped"
            /\ AddressMoved(f) =>
                   /\ dhcp_check[f] \in ApiMacs
                   /\ format_mac(dhcp_check[f]) = format_mac(discovery_info[f].macaddress)

\* C20: the privacy override of a flow instance is set only by the consent given
\* at the privacy form and is never reset; an invocation made while it is not
\* set never calls set_privacy_mode, and every invocation made once it is set,
\* whatever host or credentials it is given, calls set_privacy_mode first and
\* async_init only after the whole settle delay.
C20_OverrideMonotonic ==
    /\ [][\A f \in Flows :
            /\ _disable_privacy[f] => _disable_privacy'[f]
            /\ (~_disable_privacy[f] /\ _disable_privacy'[f]) =>
                   /\ pc[f] = "privacy"
                   /\ result[f].name = "privacy"]_vars
    /\ [](\A f \in Flows :
            /\ ~_disable_privacy[f] =>
                   \A i \in DOMAIN trace[f] : trace[f][i] # "set_privacy_mode"
            /\ (_disable_privacy[f] /\ pc[f] \notin {"privacy", "done"}) =>
                   /\ Invoked(f)
                   /\ trace[f][1] = "set_privacy_mode"
                   /\ \A i \in DOMAIN trace[f] :
                         trace[f][i] = "async_init" =>
                             /\ i = 3
                             /\ trace[f][2] = "sleep"
                             /\ clock[f] = API_STARTUP_TIME)

C20_Witness ==
    \E f \in Flows :
        /\ _disable_privacy[f]
        /\ pc[f] = "async_init"
        /\ user_input[f].host # _user_input[f].host
        /\ user_input[f].password # _user_input[f].password
        /\ trace[f] = <<"set_privacy_mode", "sleep", "async_init">>
        /\ clock[f] = API_STARTUP_TIME

(***************************************************************************)
(* Specification of two flow instances of any sources running concurrently *)
(* over one entry store.  A step is what a handler does between two        *)
(* suspensions (a call on the ReolinkHost, the sleep, a form), so the      *)
(* steps of the two instances interleave in every order.  To keep the      *)
(* product of the two instances small, the store starts with one record,   *)
(* the users type one password, and the device fails in two ways: the      *)
(* privacy-mode block and a connection error.                              *)
(***************************************************************************)
ConcurrentStores == {<<Entry("aa:01", StoredData("h1"))>>}
ConcurrentRaisable == {"LoginPrivacyModeError", "ReolinkError"}
ConcurrentPasswords == {"p1"}

InitConcurrent ==
    /\ entries \in ConcurrentStores
    /\ reloads = {}
    /\ ValidContext
    /\ pc = [f \in Flows |-> "start"]
    /\ InitFlowHandler
    /\ InitOptions

\* What the device and the users do in this specification.
ConcurrentEnvironment ==
    \A f \in Flows :
        /\ raised'[f] \in ConcurrentRaisable \cup {None}
        /\ _password'[f] \in ConcurrentPasswords \cup {None}

NextConcurrent ==
    \E f \in Flows :
        \/ async_step_user_start(f) /\ ConcurrentEnvironment /\ UNCHANGED remembered
        \/ async_step_reauth(f) /\ ConcurrentEnvironment /\ UNCHANGED remembered
        \/ async_step_reconfigure(f) /\ ConcurrentEnvironment /\ UNCHANGED remembered
        \/ async_step_dhcp(f) /\ ConcurrentEnvironment /\ UNCHANGED remembered
        \/ dhcp_get_state(f) /\ ConcurrentEnvironment /\ UNCHANGED remembered
        \/ async_step_user(f) /\ ConcurrentEnvironment /\ UNCHANGED remembered
        \/ async_step_privacy(f) /\ ConcurrentEnvironment /\ UNCHANGED remembered
        \/ set_privacy_mode(f) /\ ConcurrentEnvironment /\ UNCHANGED remembered
        \/ sleep_tick(f) /\ ConcurrentEnvironment /\ UNCHANGED remembered
        \/ sleep_done(f) /\ ConcurrentEnvironment /\ UNCHANGED remembered
        \/ async_init(f) /\ ConcurrentEnvironment /\ UNCHANGED remembered
        \/ host_stop(f) /\ ConcurrentEnvironment /\ UNCHANGED remembered

SpecConcurrent == InitConcurrent /\ [][NextConcurrent]_vars

\* C18: whatever the interleaving of the steps of concurrently running flow
\* instances, no two stored records have the same unique key, and two flows
\* that probed the same device have not both created a record.
C18_UniqueKeys ==
    /\ \A i, j \in DOMAIN entries :
          i # j => entries[i].unique_id # entries[j].unique_id
    /\ \A f, g \in Flows :
          ( /\ f # g
            /\ result[f].type = "create_entry"
            /\ result[g].type = "create_entry" )
          => format_mac(mac_address[f]) # format_mac(mac_address[g])

\* Two fresh flows submitted while the device was not stored, both probes
\* answered by that device: one created the record, the other aborted.
C18_Witness ==
    /\ source = [f \in Flows |-> SOURCE_USER]
    /\ \A f \in Flows : ProbeSucceeded(f) /\ Len(entries_before[f]) = 1
    /\ format_mac(mac_address["f1"]) = format_mac(mac_address["f2"])
    /\ result["f1"].type = "create_entry"
    /\ result["f2"] = Abort("already_configured")
    /\ Len(entries) = 2

(***************************************************************************)
(* Specification of one flow instance whose user retries.  One earlier     *)
(* invocation of async_step_user is remembered, any one of those after     *)
(* which the device was left as it was, so that every later invocation is  *)
(* compared with it.  To keep the product with the remembered invocation   *)
(* small, the user types one password and the device fails in three ways:  *)
(* the privacy-mode block, a connection error and rejected credentials.    *)
(***************************************************************************)
RepeatRaisable == {"LoginPrivacyModeError", "ReolinkError", "CredentialsInvalidError"}
RepeatPasswords == {"p1"}

\* What the device and the user do in this specification.
RepeatEnvironment ==
    \A f \in Flows :
        /\ raised'[f] \in RepeatRaisable \cup {None}
        /\ _password'[f] \in RepeatPasswords \cup {None}

\* The invocation of async_step_user that returned last: its input, the calls
\* it made on the ReolinkHost, what they answered, and what it returned.
Summary(f) ==
    [input |-> user_input[f], calls |-> trace[f], raised |-> raised[f],
     mac |-> mac_address[f], errors |-> result[f].errors, next |-> pc[f]]

\* set_privacy_mode(enable=False) completed among the calls: the invocation
\* changed the state of the device.
ChangedDevice(calls) == \E i \in DOMAIN calls : calls[i] = "sleep"

\* A form is submitted: the invocation that returned last is remembered or
\* not; whatever is remembered is dropped once the device was changed.
Remember(f) ==
    IF ~Invoked(f)
    THEN UNCHANGED remembered
    ELSE IF ChangedDevice(trace[f])
         THEN remembered' = Set(remembered, f, NoInvocation)
         ELSE \E r \in {remembered[f], Summary(f)} :
                  remembered' = Set(remembered, f, r)

NextRepeat ==
    \E f \in Flows :
        \/ async_step_user_start(f) /\ RepeatEnvironment /\ UNCHANGED remembered
        \/ async_step_reauth(f) /\ RepeatEnvironment /\ UNCHANGED remembered
        \/ async_step_reconfigure(f) /\ RepeatEnvironment /\ UNCHANGED remembered
        \/ async_step_dhcp(f) /\ RepeatEnvironment /\ UNCHANGED remembered
        \/ dhcp_get_state(f) /\ RepeatEnvironment /\ UNCHANGED remembered
        \/ async_step_user(f) /\ RepeatEnvironment /\ Remember(f)
        \/ async_step_privacy(f) /\ RepeatEnvironment /\ Remember(f)
        \/ set_privacy_mode(f) /\ RepeatEnvironment /\ UNCHANGED remembered
        \/ sleep_tick(f) /\ RepeatEnvironment /\ UNCHANGED remembered
        \/ sleep_done(f) /\ RepeatEnvironment /\ UNCHANGED remembered
        \/ async_init(f) /\ RepeatEnvironment /\ UNCHANGED remembered
        \/ host_stop(f) /\ RepeatEnvironment /\ UNCHANGED remembered

SpecRepeat == Init /\ [][NextRepeat]_vars

\* An invocation of async_step_user has returned to the user in flow f, and an
\* earlier invocation with the identical input is remembered.
Repeated(f) ==
    /\ Invoked(f)
    /\ pc[f] \in {"user", "privacy"}
    /\ remembered[f] # NoInvocation
    /\ remembered[f].input = user_input[f]

\* The two invocations reached the same classification.
SameClassification(f) ==
    /\ result[f].errors = remembered[f].errors
    /\ pc[f] = remembered[f].next

\* The two invocations started with the same privacy override: they made the
\* same first call on the ReolinkHost.
SameOverride(f) == trace[f][1] = remembered[f].calls[1]

\* The device answered the two invocations alike.
SameAnswers(f) ==
    /\ trace[f] = remembered[f].calls
    /\ raised[f] = remembered[f].raised
    /\ mac_address[f] = remembered[f].mac

\* C17 as stated: an invocation with the input of an earlier one, over a device
\* whose state neither of them nor any invocation between them changed and
\* which answers a call it was asked before as it answered then, reaches the
\* classification of the earlier one, after the privacy consent too.
C17_Original ==
    \A f \in Flows :
        (/\ Repeated(f)
         /\ ~ChangedDevice(trace[f])
         /\ (SameOverride(f) => SameAnswers(f)))
        => SameClassification(f)

\* C17: an invocation with the input and the privacy override of an earlier
\* one, over a device left as it was that answers as it did, reaches the
\* classification of the earlier one: the same errors and the same next form.
C17_Idempotent ==
    \A f \in Flows :
        (Repeated(f) /\ SameOverride(f) /\ SameAnswers(f)) => SameClassification(f)

C17_Witness ==
    \E f \in Flows :
        /\ Repeated(f)
        /\ _disable_privacy[f]
        /\ trace[f] = <<"set_privacy_mode", "stop">>
        /\ SameAnswers(f)
        /\ raised[f] = "ReolinkError"
        /\ result[f].errors = {<<"host", "cannot_connect">>}
        /\ pc[f] = "user"

(***************************************************************************)
(* ReolinkOptionsFlowHandler and check_webhook_reachability                *)
(***************************************************************************)

\* The test made for every address that is set, changed or not.
NeedsWebhookTestIfSet(reverse_proxy, stored) == reverse_proxy \notin {None, ""}

\* Lines 87-89: only a new, non-empty reverse proxy is tested.
NeedsWebhookTest(reverse_proxy, stored) ==
    /\ reverse_proxy \notin {None, ""}
    /\ reverse_proxy # stored

\* Lines 94-106: the errors async_step_init derives from the outcome of the check.
OptionsErrors(outcome) ==
    CASE outcome.kind = "return" ->
            IF outcome.value
            THEN {}
            ELSE {<<"onvif_events_reverse_proxy", "webhook_test_unreachable">>}
      [] outcome.exc = "TimeoutError" ->
            {<<"onvif_events_reverse_proxy", "webhook_test_timeout">>}
      [] outcome.exc = "InvalidURL" ->
            {<<"onvif_events_reverse_proxy", "webhook_test_invalid_url">>}
      [] outcome.exc = "ClientResponseError" ->
            {<<"onvif_events_reverse_proxy", "webhook_test_error_response">>}
      [] OTHER -> {}

\* Line 106: placeholders["response_code"] = str(err.status)
OptionsPlaceholders(outcome) ==
    IF outcome.kind = "raise" /\ outcome.exc = "ClientResponseError"
    THEN {<<"response_code", ToString(outcome.status)>>}
    ELSE {}

\* The exceptions async_step_init catches around the check.
OptionsCaught == {"TimeoutError", "InvalidURL", "ClientResponseError"}

\* Line 109: async_create_entry(data=user_input)
PersistOptions(input) ==
    /\ config_options' = input
    /\ opt_pc' = "done"
    /\ opt_result' = Result("create_entry", "", {}, {})
    /\ opt_errors' = {}
    /\ opt_placeholders' = {}
    /\ UNCHANGED <<protocol, webhook_reverse_proxy>>

\* AfterCheck without lines 111-112: the form is shown again over the stored
\* values.
AfterCheckFormReset(outcome) ==
    IF outcome.kind = "raise" /\ outcome.exc \notin OptionsCaught
    THEN /\ opt_pc' = "form"
         /\ opt_result' = Result("error", outcome.exc, {}, {})
         /\ opt_errors' = {}
         /\ opt_placeholders' = {}
         /\ UNCHANGED <<config_options, protocol, webhook_reverse_proxy>>
    ELSE IF OptionsErrors(outcome) = {}
         THEN PersistOptions(opt_input)
         ELSE /\ opt_errors' = OptionsErrors(outcome)
              /\ opt_placeholders' = OptionsPlaceholders(outcome)
              /\ opt_pc' = "form"
              /\ opt_result' = Result("form", "init", OptionsErrors(outcome),
                                      OptionsPlaceholders(outcome))
              /\ UNCHANGED <<config_options, protocol, webhook_reverse_proxy>>

\* Lines 94-147: async_step_init from the end of the check to its return.  An
\* exception it does not catch leaves the handler; the step stays where it was.
AfterCheck(outcome) ==
    IF outcome.kind = "raise" /\ outcome.exc \notin OptionsCaught
    THEN /\ opt_pc' = "form"
         /\ opt_result' = Result("error", outcome.exc, {}, {})
         /\ opt_errors' = {}
         /\ opt_placeholders' = {}
         /\ UNCHANGED <<config_options, protocol, webhook_reverse_proxy>>
    ELSE IF OptionsErrors(outcome) = {}
         THEN PersistOptions(opt_input)
         ELSE /\ opt_errors' = OptionsErrors(outcome)
              /\ opt_placeholders' = OptionsPlaceholders(outcome)
              /\ protocol' = opt_input.protocol
              /\ webhook_reverse_proxy' = opt_input.onvif_events_reverse_proxy
              /\ opt_pc' = "form"
              /\ opt_result' = Result("form", "init", OptionsErrors(outcome),
                                      OptionsPlaceholders(outcome))
              /\ UNCHANGED config_options

\* Lines 151-172: check_webhook_reachability up to the await of the POST.
check_webhook_reachability(proxy_addr) ==
    \E id \in Tokens \ handlers :
        /\ webhook_id' = id
        /\ webhook_reachable' = FALSE
        /\ handlers' = handlers \cup {id}
        /\ post_sent' = TRUE
        /\ check_pc' = "post"
        /\ check_outcome' = NoOutcome
        /\ elapsed' = 0
        /\ delivered' = {}
        /\ echoed' = FALSE
        /\ ncallbacks' = 0
        /\ requests' = {}

\* No call of check_webhook_reachability exists: the locals of an earlier call
\* are gone.
NoCheck ==
    /\ webhook_id' = None
    /\ webhook_reachable' = FALSE
    /\ post_sent' = FALSE
    /\ check_pc' = "idle"
    /\ check_outcome' = NoOutcome
    /\ elapsed' = 0
    /\ requests' = {}
    /\ delivered' = {}
    /\ echoed' = FALSE
    /\ ncallbacks' = 0
    /\ UNCHANGED handlers

\* Lines 84-112: the user submits the options form.
async_step_init ==
    /\ opt_pc = "form"
    /\ \E input \in OptionsInputs :
          LET reverse_proxy == input.onvif_events_reverse_proxy IN
          /\ opt_input' = input
          /\ opt_before' = config_options
          /\ IF NeedsWebhookTest(reverse_proxy, config_options.onvif_events_reverse_proxy)
             THEN /\ check_webhook_reachability(reverse_proxy)
                  /\ opt_pc' = "checking"
                  /\ opt_result' = NoResult
                  /\ opt_errors' = {}
                  /\ opt_placeholders' = {}
                  /\ UNCHANGED <<config_options, protocol, webhook_reverse_proxy>>
             ELSE /\ PersistOptions(input)
                  /\ NoCheck
    /\ UNCHANGED <<storeVars, flowVars>>

\* The finally clause skipped when the try block raises.
CheckExitNoFinally(outcome) ==
    /\ handlers' = IF outcome.kind = "return" THEN handlers \ {webhook_id} ELSE handlers
    /\ check_pc' = IF outcome.kind = "return" THEN "returned" ELSE "raised"
    /\ check_outcome' = outcome
    /\ requests' = {}

\* Lines 173-175: check_webhook_reachability ends; the finally clause unregisters.
\* A handle_webhook call still awaiting request.text() would set the flag of a
\* call that has returned, which nothing reads: such calls are dropped here.
CheckExit(outcome) ==
    /\ handlers' = handlers \ {webhook_id}
    /\ check_pc' = IF outcome.kind = "return" THEN "returned" ELSE "raised"
    /\ check_outcome' = outcome
    /\ requests' = {}

\* One second passes inside async_timeout.timeout(...).
check_tick ==
    /\ check_pc = "post"
    /\ elapsed < WEBHOOK_REACHABILITY_TEST_TIMEOUT
    /\ elapsed' = elapsed + 1
    /\ UNCHANGED <<storeVars, flowVars, optVars, handlers, webhook_id,
                   webhook_reachable, post_sent, check_pc, check_outcome, requests,
                   delivered, echoed, ncallbacks>>

\* Lines 170-173: the POST completes before the timeout: with a success status
\* (the flag is returned as it is then), or by raising.
post_done ==
    /\ check_pc = "post"
    /\ elapsed < WEBHOOK_REACHABILITY_TEST_TIMEOUT
    /\ \E outcome \in {Return(webhook_reachable), Raised("InvalidURL", None),
                        Raised("ClientConnectionError", None)}
                       \cup {Raised("ClientResponseError", c) : c \in StatusCodes} :
          /\ CheckExit(outcome)
          /\ AfterCheck(outcome)
    /\ UNCHANGED <<storeVars, flowVars, opt_input, opt_before, webhook_id,
                   webhook_reachable, post_sent, elapsed, delivered, echoed,
                   ncallbacks>>

\* The timeout taken for an unreachable proxy: the check answers False.
TimeoutOutcomeReturnsFalse == Return(FALSE)

\* Line 169: async_timeout.timeout raises when the bound has elapsed.
TimeoutOutcome == Raised("TimeoutError", None)

post_timeout ==
    /\ check_pc = "post"
    /\ elapsed = WEBHOOK_REACHABILITY_TEST_TIMEOUT
    /\ CheckExit(TimeoutOutcome)
    /\ AfterCheck(TimeoutOutcome)
    /\ UNCHANGED <<storeVars, flowVars, opt_input, opt_before, webhook_id,
                   webhook_reachable, post_sent, elapsed, delivered, echoed,
                   ncallbacks>>

\* A request reaches the path of the registered webhook id while the POST is
\* awaited: the webhook component starts handle_webhook, which awaits
\* request.text().
webhook_request ==
    /\ check_pc = "post"
    /\ webhook_id \in handlers
    /\ ncallbacks < MaxCallbacks
    /\ \E body \in {webhook_id, "other"} :
          /\ requests' = requests \cup {[id |-> webhook_id, body |-> body]}
          /\ echoed' = (echoed \/ body = webhook_id)
    /\ ncallbacks' = ncallbacks + 1
    /\ UNCHANGED <<storeVars, flowVars, optVars, handlers, webhook_id,
                   webhook_reachable, post_sent, check_pc, check_outcome, elapsed,
                   delivered>>

\* handle_webhook without the comparison.
SetsFlagAlways(id, data) == TRUE

\* handle_webhook with the comparison inverted.
SetsFlagInverted(id, data) == id # data

\* Lines 158-160: whether handle_webhook, registered under id, sets the flag.
SetsFlag(id, data) == id = data

\* Lines 157-160: request.text() completes in a running handle_webhook.  The flag
\* is the one of the call that registered the handler.
handle_webhook ==
    /\ \E r \in requests :
          /\ requests' = requests \ {r}
          /\ webhook_reachable' = IF r.id = webhook_id /\ SetsFlag(r.id, r.body)
                                  THEN TRUE
                                  ELSE webhook_reachable
          /\ delivered' = IF r.id = webhook_id /\ check_pc = "post"
                          THEN delivered \cup {r.body}
                          ELSE delivered
    /\ UNCHANGED <<storeVars, flowVars, optVars, handlers, webhook_id, post_sent,
                   check_pc, check_outcome, elapsed, echoed, ncallbacks>>

\* async_get_options_flow and ReolinkOptionsFlowHandler.__init__: the options
\* flow is opened again on the stored options.
async_get_options_flow ==
    /\ opt_pc = "done"
    /\ protocol' = config_options.protocol
    /\ webhook_reverse_proxy' = config_options.onvif_events_reverse_proxy
    /\ opt_pc' = "form"
    /\ opt_input' = NoOptionsInput
    /\ opt_before' = config_options
    /\ opt_result' = NoResult
    /\ NoCheck
    /\ UNCHANGED <<storeVars, flowVars, config_options, opt_errors, opt_placeholders>>

(***************************************************************************)
(* Specification of the options flow of one stored record; no onboarding   *)
(* flow runs.                                                              *)
(***************************************************************************)
InitNoFlow ==
    /\ InitFlow
    /\ entries = <<Entry("aa:01", StoredData("h1"))>>
    /\ source = [f \in Flows |-> SOURCE_USER]

InitOptionsFlow == InitNoFlow /\ InitOptions

NextOptions ==
    \/ async_step_init
    \/ check_tick
    \/ post_done
    \/ post_timeout
    \/ webhook_request
    \/ handle_webhook
    \/ async_get_options_flow

SpecOptions == InitOptionsFlow /\ [][NextOptions]_vars

(***************************************************************************)
(* Properties of the options flow (checked under SpecOptions)              *)
(***************************************************************************)

\* check_webhook_reachability has returned or raised.
CheckEnded == check_pc \in {"returned", "raised"}

\* C6: once check_webhook_reachability has returned or raised, on whichever
\* path, the webhook id it registered is not registered any more; a handler is
\* registered only while the POST is awaited.
C6_AlwaysUnregistered ==
    /\ CheckEnded => webhook_id \notin handlers
    /\ check_pc # "post" => handlers = {}

C6_Witness ==
    /\ check_pc = "raised"
    /\ check_outcome = Raised("ClientConnectionError", None)
    /\ webhook_id \notin handlers
    /\ post_sent

\* C7: check_webhook_reachability returns True only if handle_webhook received,
\* before the call ended, a request whose body equals the generated id.
C7_TrueOnlyIfTokenReceived ==
    (check_pc = "returned" /\ check_outcome.value = TRUE) => webhook_id \in delivered

C7_Witness ==
    /\ check_pc = "returned"
    /\ check_outcome = Return(TRUE)
    /\ delivered = {webhook_id, "other"}

\* C8 as claimed: when the id came back to the webhook path within the time
\* bound and the POST was answered with a success status, whichever came first,
\* check_webhook_reachability returns True.
C8_Original == (check_pc = "returned" /\ echoed) => check_outcome = Return(TRUE)

\* C8 amended: check_webhook_reachability returns as soon as the POST completes
\* with a success status, and then returns True exactly when handle_webhook has
\* by then compared a body equal to the id; an echo whose handler has not
\* finished when the response arrives gives False.
C8_TrueIffReceivedBeforeResponse ==
    check_pc = "returned" => check_outcome = Return(webhook_id \in delivered)

C8_Witness ==
    /\ check_pc = "returned"
    /\ echoed
    /\ check_outcome = Return(TRUE)
    /\ elapsed > 0

\* C9 as claimed: with no request ever reaching the webhook path (and the POST
\* neither refused as malformed nor answered with an error) the check returns
\* False, when exactly the timeout has elapsed, and has unregistered.
C9_Original ==
    (CheckEnded /\ ncallbacks = 0 /\ check_outcome.exc \in {None, "TimeoutError"}) =>
        /\ check_outcome = Return(FALSE)
        /\ elapsed = WEBHOOK_REACHABILITY_TEST_TIMEOUT
        /\ webhook_id \notin handlers

\* C9 amended: with no request ever reaching the webhook path the check never
\* returns True and has unregistered when it ends; it returns False when the
\* POST completes with a success status, which is before the timeout, and when
\* the timeout elapses first it raises TimeoutError, at exactly the timeout.
C9_NoCallback ==
    (CheckEnded /\ ncallbacks = 0) =>
        /\ webhook_id \notin handlers
        /\ check_outcome # Return(TRUE)
        /\ check_outcome.kind = "return" =>
               elapsed < WEBHOOK_REACHABILITY_TEST_TIMEOUT
        /\ (elapsed = WEBHOOK_REACHABILITY_TEST_TIMEOUT) <=>
               (check_outcome = Raised("TimeoutError", None))

C9_Witness ==
    /\ check_pc = "returned"
    /\ ncallbacks = 0
    /\ check_outcome = Return(FALSE)
    /\ elapsed > 0
    /\ webhook_id \notin handlers

\* C10: a submission whose reverse-proxy address is absent, empty or equal to
\* the stored one is persisted in the same step, without a webhook being
\* registered or a POST being sent.
C10_UnchangedSkipsTest ==
    ( /\ opt_input # NoOptionsInput
      /\ \/ opt_input.onvif_events_reverse_proxy \in {None, ""}
         \/ opt_input.onvif_events_reverse_proxy = opt_before.onvif_events_reverse_proxy )
    => /\ opt_pc = "done"
       /\ config_options = opt_input
       /\ ~post_sent
       /\ check_pc = "idle"
       /\ handlers = {}

C10_Witness ==
    /\ opt_pc = "done"
    /\ opt_input # NoOptionsInput
    /\ opt_input.onvif_events_reverse_proxy \in ProxyAddrs
    /\ opt_input.onvif_events_reverse_proxy = opt_before.onvif_events_reverse_proxy
    /\ opt_input.protocol # opt_before.protocol
    /\ config_options = opt_input
    /\ ~post_sent

\* The one error the options step reports for an outcome of the check, as
\* section 4.2 of the specification lists them.
ReportedError(outcome) ==
    CASE outcome.kind = "return" -> "webhook_test_unreachable"
      [] outcome.exc = "TimeoutError" -> "webhook_test_timeout"
      [] outcome.exc = "InvalidURL" -> "webhook_test_invalid_url"
      [] outcome.exc = "ClientResponseError" -> "webhook_test_error_response"
      [] OTHER -> "unclassified"

\* C11: every outcome of the check other than a returned True is reported by
\* the options step as exactly one error on the reverse-proxy field (timeout,
\* malformed URL, error response with the status as placeholder, returned
\* False), in the options form.
C11_Original ==
    (CheckEnded /\ check_outcome # Return(TRUE)) =>
        /\ opt_result.type = "form"
        /\ opt_result.name = "init"
        /\ Cardinality(opt_result.errors) = 1
        /\ \A e \in opt_result.errors : e[1] = "onvif_events_reverse_proxy"
        /\ check_outcome.exc \in OptionsCaught \cup {None} =>
               opt_result.errors =
                   {<<"onvif_events_reverse_proxy", ReportedError(check_outcome)>>}
        /\ check_outcome.exc = "ClientResponseError" =>
               opt_result.placeholders =
                   {<<"response_code", ToString(check_outcome.status)>>}

\* The submitted reverse-proxy address is present and differs from the stored one.
AddressChanged ==
    /\ opt_input # NoOptionsInput
    /\ opt_input.onvif_events_reverse_proxy \notin {None, ""}
    /\ opt_input.onvif_events_reverse_proxy # opt_before.onvif_events_reverse_proxy

\* C12: when the submitted address is present and differs from the stored one,
\* the options are persisted only after the check returned True; while the check
\* runs and after any reported error the stored options are as they were, and
\* after a reported error the form is shown again with that error and with the
\* protocol and the address the user entered.
C12_PersistOnlyAfterTrue ==
    AddressChanged =>
        /\ (opt_pc = "done" \/ config_options # opt_before) =>
               /\ check_outcome = Return(TRUE)
               /\ config_options = opt_input
        /\ opt_pc = "checking" => config_options = opt_before
        /\ (CheckEnded /\ OptionsErrors(check_outcome) # {}) =>
               /\ config_options = opt_before
               /\ opt_pc = "form"
               /\ opt_result = Result("form", "init", OptionsErrors(check_outcome),
                                      OptionsPlaceholders(check_outcome))
               /\ protocol = opt_input.protocol
               /\ webhook_reverse_proxy = opt_input.onvif_events_reverse_proxy

C12_Witness ==
    /\ AddressChanged
    /\ check_outcome = Return(FALSE)
    /\ opt_result.errors = {<<"onvif_events_reverse_proxy", "webhook_test_unreachable">>}
    /\ opt_before = OptionsData("rtsp", "https://a")
    /\ config_options = opt_before
    /\ protocol = "flv"
    /\ webhook_reverse_proxy = "https://b"

====
